---- MODULE Spec2Model ----
(***************************************************************************)
(* Model of video_frame_provider.py: the five invocations of the plugin    *)
(* (Load Video Frame, Image Index Collect, Images Index To Video, Get      *)
(* Total Frames, Get Source Frame Rate) as a sequential state machine.     *)
(*                                                                         *)
(* Text is a sequence of one-character strings.  The JSON text the model   *)
(* handles is the subset written over Alphabet: integers, strings with the *)
(* escapes \" and \\, arrays and objects of integers and strings, and      *)
(* blanks as whitespace.                                                   *)
(***************************************************************************)
EXTENDS Integers, Sequences, FiniteSets, TLC

\* ------------------------------------------------------------------------
\* Bounds and sample inputs
\* ------------------------------------------------------------------------

\* Longest image_index_collection handed to Images Index To Video.
MaxRecords == 4

\* Most hand-written (not produced by Image Index Collect) records in one
\* collection.
MaxForeign == 1

\* Number of frames of the sample clip.
ClipLen == 3

\* Values of ImageIndexCollectInvocation.index that are tried.
IndexValues == {0, 12}

\* Values of ImageField.image_name that are tried.
ImageNames == { <<"a">>, <<"x", "\"", "\\">> }

\* Values of frame_number that are tried (the field is declared ge=1).
FrameNumbers == 1..(ClipLen + 1)

\* ------------------------------------------------------------------------
\* Characters
\* ------------------------------------------------------------------------

Digits == <<"0", "1", "2", "3", "4", "5", "6", "7", "8", "9">>

\* The characters of the model, in ascending code point order.
Alphabet ==
    <<" ", "\"", ",", "-">> \o Digits \o <<":", "[", "\\", "]", "a", "g", "x", "z", "{", "}">>

IsDigit(c) == \E d \in 1..10 : Digits[d] = c

DigitVal(c) == (CHOOSE d \in 1..10 : Digits[d] = c) - 1

\* Rank of a character in code point order (Python compares str by code point).
Ord(c) == CHOOSE k \in 1..Len(Alphabet) : Alphabet[k] = c

\* ------------------------------------------------------------------------
\* Python values produced by json.loads
\* ------------------------------------------------------------------------

JInt(n) == [kind |-> "int", n |-> n, s |-> <<>>, items |-> <<>>]

JStr(s) == [kind |-> "str", n |-> 0, s |-> s, items |-> <<>>]

JList(xs) == [kind |-> "list", n |-> 0, s |-> <<>>, items |-> xs]

\* A dict is kept as the sequence of its values; its keys are always str.
JDict(xs) == [kind |-> "dict", n |-> 0, s |-> <<>>, items |-> xs]

\* ------------------------------------------------------------------------
\* json.dumps([index, image_name])
\* ------------------------------------------------------------------------

RECURSIVE NatStr(_)
NatStr(n) ==
    IF n < 10 THEN <<Digits[n + 1]>>
    ELSE NatStr(n \div 10) \o <<Digits[(n % 10) + 1]>>

\* int.__repr__, which json.dumps uses for integers.
IntStr(n) == IF n < 0 THEN <<"-">> \o NatStr(-n) ELSE NatStr(n)

\* Mutant of EscapeChars: the backslash is left unescaped.
RECURSIVE EscapeQuotesOnly(_)
EscapeQuotesOnly(s) ==
    IF s = <<>> THEN <<>>
    ELSE (IF Head(s) = "\"" THEN <<"\\", "\"">> ELSE <<Head(s)>>) \o EscapeQuotesOnly(Tail(s))

RECURSIVE EscapeChars(_)
EscapeChars(s) ==
    IF s = <<>> THEN <<>>
    ELSE (IF Head(s) = "\"" THEN <<"\\", "\"">>
          ELSE IF Head(s) = "\\" THEN <<"\\", "\\">>
          ELSE <<Head(s)>>) \o EscapeChars(Tail(s))

\* The JSON string encoder: quotes around the escaped characters.
StrEnc(s) == <<"\"">> \o EscapeChars(s) \o <<"\"">>

\* json.dumps of a two-element list [index, image_name]; the default item
\* separator is a comma followed by a blank.
json_dumps(index, image_name) ==
    <<"[">> \o IntStr(index) \o <<",", " ">> \o StrEnc(image_name) \o <<"]">>

\* ------------------------------------------------------------------------
\* json.loads
\* ------------------------------------------------------------------------

ParseFail == [ok |-> FALSE, val |-> JInt(0), pos |-> 0]

ParseOk(v, p) == [ok |-> TRUE, val |-> v, pos |-> p]

CharAt(s, i) == IF i >= 1 /\ i <= Len(s) THEN s[i] ELSE "EOF"

RECURSIVE SkipWs(_, _)
SkipWs(s, i) == IF CharAt(s, i) = " " THEN SkipWs(s, i + 1) ELSE i

\* Body of a string, from the character after the opening quote.
RECURSIVE ScanStr(_, _, _)
ScanStr(s, i, acc) ==
    IF i > Len(s) THEN ParseFail
    ELSE IF s[i] = "\"" THEN ParseOk(JStr(acc), i + 1)
    ELSE IF s[i] = "\\"
         THEN IF CharAt(s, i + 1) \in {"\"", "\\"}
              THEN ScanStr(s, i + 2, Append(acc, s[i + 1]))
              ELSE ParseFail
    ELSE ScanStr(s, i + 1, Append(acc, s[i]))

RECURSIVE ScanDigits(_, _, _)
ScanDigits(s, i, acc) ==
    IF IsDigit(CharAt(s, i)) THEN ScanDigits(s, i + 1, acc * 10 + DigitVal(s[i]))
    ELSE [n |-> acc, pos |-> i]

\* A JSON integer: -?(0|[1-9][0-9]*).
ParseInt(s, i) ==
    LET neg == CharAt(s, i) = "-"
        j == IF neg THEN i + 1 ELSE i
    IN IF ~IsDigit(CharAt(s, j)) THEN ParseFail
       ELSE IF s[j] = "0" THEN ParseOk(JInt(0), j + 1)
       ELSE LET d == ScanDigits(s, j, 0)
            IN ParseOk(JInt(IF neg THEN -d.n ELSE d.n), d.pos)

ParseScalar(s, i) ==
    IF CharAt(s, i) = "\"" THEN ScanStr(s, i + 1, <<>>)
    ELSE ParseInt(s, i)

\* Items of an array after the opening bracket, i at the start of an item.
RECURSIVE ParseElems(_, _, _)
ParseElems(s, i, acc) ==
    LET r == ParseScalar(s, i)
        k == SkipWs(s, r.pos)
    IN IF ~r.ok THEN ParseFail
       ELSE IF CharAt(s, k) = "," THEN ParseElems(s, SkipWs(s, k + 1), Append(acc, r.val))
       ELSE IF CharAt(s, k) = "]" THEN ParseOk(JList(Append(acc, r.val)), k + 1)
       ELSE ParseFail

ParseArray(s, i) ==
    LET j == SkipWs(s, i + 1)
    IN IF CharAt(s, j) = "]" THEN ParseOk(JList(<<>>), j + 1)
       ELSE ParseElems(s, j, <<>>)

\* Pairs of an object after the opening brace, i at the start of a key.
RECURSIVE ParsePairs(_, _, _)
ParsePairs(s, i, acc) ==
    LET key == IF CharAt(s, i) = "\"" THEN ScanStr(s, i + 1, <<>>) ELSE ParseFail
        c == SkipWs(s, key.pos)
        r == ParseScalar(s, SkipWs(s, c + 1))
        k == SkipWs(s, r.pos)
    IN IF ~key.ok \/ CharAt(s, c) # ":" THEN ParseFail
       ELSE IF ~r.ok THEN ParseFail
       ELSE IF CharAt(s, k) = "," THEN ParsePairs(s, SkipWs(s, k + 1), Append(acc, r.val))
       ELSE IF CharAt(s, k) = "}" THEN ParseOk(JDict(Append(acc, r.val)), k + 1)
       ELSE ParseFail

ParseObject(s, i) ==
    LET j == SkipWs(s, i + 1)
    IN IF CharAt(s, j) = "}" THEN ParseOk(JDict(<<>>), j + 1)
       ELSE ParsePairs(s, j, <<>>)

ParseValue(s, i) ==
    IF CharAt(s, i) = "[" THEN ParseArray(s, i)
    ELSE IF CharAt(s, i) = "{" THEN ParseObject(s, i)
    ELSE ParseScalar(s, i)

\* json.loads(s): one value between optional whitespace, nothing after it.
\* ok = FALSE stands for json.JSONDecodeError.
json_loads(s) ==
    LET r == ParseValue(s, SkipWs(s, 1))
    IN IF r.ok /\ SkipWs(s, r.pos) = Len(s) + 1 THEN r ELSE ParseFail

\* ------------------------------------------------------------------------
\* Python operations used by the invocations
\* ------------------------------------------------------------------------

Value(v) == [err |-> "none", val |-> v]

Raise(e) == [err |-> e, val |-> JInt(0)]

\* x[i] for i in {0, 1}, on a value json.loads returned.
GetItem(x, i) ==
    IF x.kind = "list"
    THEN IF i < Len(x.items) THEN Value(x.items[i + 1]) ELSE Raise("IndexError")
    ELSE IF x.kind = "str"
    THEN IF i < Len(x.s) THEN Value(JStr(<<x.s[i + 1]>>)) ELSE Raise("IndexError")
    ELSE IF x.kind = "dict" THEN Raise("KeyError")
    ELSE Raise("TypeError")

\* str < str: lexicographic by code point.
RECURSIVE StrLess(_, _)
StrLess(a, b) ==
    IF b = <<>> THEN FALSE
    ELSE IF a = <<>> THEN TRUE
    ELSE IF Head(a) = Head(b) THEN StrLess(Tail(a), Tail(b))
    ELSE Ord(Head(a)) < Ord(Head(b))

\* Mutant of KeyLess: the comparison is reversed (a descending sort).
KeyGreater(a, b) == IF a.kind = "int" THEN a.n > b.n ELSE StrLess(b.s, a.s)

\* key=lambda x: x[0]
SortKey(x) == GetItem(x, 0)

\* a < b on two sort keys of the same kind.
KeyLess(a, b) == IF a.kind = "int" THEN a.n < b.n ELSE StrLess(a.s, b.s)

\* Mutant of Insert: x goes in front of the elements of equal key (the sort
\* is not stable).
RECURSIVE InsertBeforeEqual(_, _)
InsertBeforeEqual(acc, x) ==
    IF acc = <<>> THEN <<x>>
    ELSE IF ~KeyLess(SortKey(acc[Len(acc)]).val, SortKey(x).val)
         THEN Append(InsertBeforeEqual(SubSeq(acc, 1, Len(acc) - 1), x), acc[Len(acc)])
         ELSE Append(acc, x)

\* Insert x behind every element whose key is not greater than x's key.
RECURSIVE Insert(_, _)
Insert(acc, x) ==
    IF acc = <<>> THEN <<x>>
    ELSE IF KeyLess(SortKey(x).val, SortKey(acc[Len(acc)]).val)
         THEN Append(Insert(SubSeq(acc, 1, Len(acc) - 1), x), acc[Len(acc)])
         ELSE Append(acc, x)

RECURSIVE InsertAll(_, _)
InsertAll(acc, arr) ==
    IF arr = <<>> THEN acc ELSE InsertAll(Insert(acc, Head(arr)), Tail(arr))

\* sorted(arr, key=lambda x: x[0]) on keys that compare: ascending, stable.
StableSort(arr) == InsertAll(<<>>, arr)

\* sorted([...], key=lambda x: x[0]): every key is computed first (the first
\* failing x[0] raises), then keys are compared; int and str do not compare.
Sorted(arr) ==
    LET bad == {k \in 1..Len(arr) : SortKey(arr[k]).err # "none"}
        first == CHOOSE k \in bad : \A m \in bad : k <= m
        mixed == \E k, m \in 1..Len(arr) : SortKey(arr[k]).val.kind # SortKey(arr[m]).val.kind
    IN IF bad # {} THEN [err |-> SortKey(arr[first]).err, val |-> <<>>]
       ELSE IF mixed THEN [err |-> "TypeError", val |-> <<>>]
       ELSE [err |-> "none", val |-> StableSort(arr)]

\* [json.loads(s) for s in image_index_collection]
LoadAll(coll) ==
    IF \E k \in 1..Len(coll) : ~json_loads(coll[k]).ok
    THEN [err |-> "JSONDecodeError", val |-> <<>>]
    ELSE [err |-> "none", val |-> [k \in 1..Len(coll) |-> json_loads(coll[k]).val]]

\* ------------------------------------------------------------------------
\* The collaborators: image store, file system
\* ------------------------------------------------------------------------

StoredNames == { <<"a">>, <<"x", "\"", "\\">>, <<"g">> }

\* The images the host's image store holds.
ImageStore ==
    [nm \in StoredNames |->
        IF nm = <<"a">> THEN [width |-> 4, height |-> 2, mode |-> "RGB"]
        ELSE IF nm = <<"g">> THEN [width |-> 4, height |-> 2, mode |-> "L"]
        ELSE [width |-> 2, height |-> 2, mode |-> "RGB"]]

NoImage == [width |-> 0, height |-> 0, mode |-> "none"]

\* context.images.get_pil(name): the stored image, or the store's error.
get_pil(name) ==
    IF name.kind = "str" /\ name.s \in StoredNames
    THEN [err |-> "none", img |-> ImageStore[name.s]]
    ELSE [err |-> "ImageFileNotFound", img |-> NoImage]

\* cv2.cvtColor(np.array(image), cv2.COLOR_RGB2BGR) needs 3 or 4 channels.
Convertible(img) == img.mode \in {"RGB", "RGBA"}

Paths == {"clip.mp4", "missing.mp4"}

\* What cv2.VideoCapture finds at a path.  Frame k of the clip is the
\* number 100 + k (zero-based k).
FileSystem ==
    [p \in Paths |->
        IF p = "clip.mp4"
        THEN [isVideo |-> TRUE, frames |-> [k \in 1..ClipLen |-> 100 + k - 1],
              frame_count |-> ClipLen, fps |-> 24]
        ELSE [isVideo |-> FALSE, frames |-> <<>>, frame_count |-> 0, fps |-> 0]]

\* Records that did not come from Image Index Collect: well-formed ones
\* naming an image the store lacks, a greyscale image, and a stored image
\* (written with other whitespace), then a one-element array, a
\* three-element array, an array whose first element is a string, and a
\* truncated text.
ForeignRecords ==
    { <<"[", "1", ",", " ", "\"", "z", "\"", "]">>,
      <<"[", "1", ",", " ", "\"", "g", "\"", "]">>,
      <<" ", "[", "5", " ", ",", "\"", "a", "\"", "]", " ">>,
      <<"[", "1", "]">>,
      <<"[", "0", ",", "\"", "a", "\"", ",", "\"", "x", "\"", "]">>,
      <<"[", "\"", "a", "\"", ",", "\"", "a", "\"", "]">>,
      <<"[", "1", ",", "\"", "a", "\"">> }

\* ------------------------------------------------------------------------
\* State
\* ------------------------------------------------------------------------

VARIABLES
    pc,             \* position of the running invocation, "idle" or "done"
    op,             \* the invocation that runs
    collection,     \* image_index_collection, gathered by the host
    origin,         \* for each record, the (index, name) it was encoded from
    loaded,         \* ImagesIndexToVideoInvocation.invoke: the parsed records
    new_array,      \* ... new_array, the parsed records sorted
    image,          \* ... image of line 118
    item,           \* ... position of the for loop in new_array
    video_writer,   \* ... video_writer: "none", "closed", "open", "released"
    log,            \* calls made on the image store and on the writer
    video_path,     \* video_path of the running video invocation
    frame_number,   \* LoadVideoFrameInvocation.frame_number
    video,          \* video: "none", "closed", "open", "released"
    position,       \* CAP_PROP_POS_FRAMES of video
    ret,            \* ret of video.read()
    frame,          \* frame of video.read()
    saved,          \* images saved to the image store
    result          \* what the invocation returned or raised

vars == <<pc, op, collection, origin, loaded, new_array, image, item, video_writer, log,
          video_path, frame_number, video, position, ret, frame, saved, result>>

assembleVars == <<loaded, new_array, image, item, video_writer, log>>

videoVars == <<video_path, frame_number, video, position, ret, frame, saved>>

NoResult == [err |-> "none", line |-> 0, hasVal |-> FALSE, val |-> 0]

Raised(e, ln) == [err |-> e, line |-> ln, hasVal |-> FALSE, val |-> 0]

Returned(v) == [err |-> "none", line |-> 0, hasVal |-> TRUE, val |-> v]

Event(e, nm, w, h) == [ev |-> e, name |-> nm, w |-> w, h |-> h]

Init ==
    /\ pc = "idle"
    /\ op = "none"
    /\ collection = <<>>
    /\ origin = <<>>
    /\ loaded = <<>>
    /\ new_array = <<>>
    /\ image = NoImage
    /\ item = 0
    /\ video_writer = "none"
    /\ log = <<>>
    /\ video_path = "none"
    /\ frame_number = 0
    /\ video = "none"
    /\ position = 0
    /\ ret = FALSE
    /\ frame = 0
    /\ saved = <<>>
    /\ result = NoResult

\* ------------------------------------------------------------------------
\* Image Index Collect, and the host gathering its outputs
\* ------------------------------------------------------------------------

ForeignCount == Cardinality({k \in 1..Len(origin) : ~origin[k].encoded})

\* ImageIndexCollectInvocation.invoke; the host appends the output string to
\* the collection that feeds Images Index To Video.
ImageIndexCollect(index, image_name) ==
    /\ pc = "idle"
    /\ Len(collection) < MaxRecords
    /\ collection' = Append(collection, json_dumps(index, image_name))
    /\ origin' = Append(origin, [encoded |-> TRUE, index |-> index, name |-> image_name])
    /\ UNCHANGED <<pc, op, result>>
    /\ UNCHANGED assembleVars
    /\ UNCHANGED videoVars

\* A string of the collection that some other node or the user wrote.
ForeignRecord(s) ==
    /\ pc = "idle"
    /\ Len(collection) < MaxRecords
    /\ ForeignCount < MaxForeign
    /\ collection' = Append(collection, s)
    /\ origin' = Append(origin, [encoded |-> FALSE, index |-> 0, name |-> <<>>])
    /\ UNCHANGED <<pc, op, result>>
    /\ UNCHANGED assembleVars
    /\ UNCHANGED videoVars

\* ------------------------------------------------------------------------
\* Images Index To Video
\* ------------------------------------------------------------------------

\* Line 117: parse every record, sort by x[0].
AssembleSort ==
    /\ pc = "idle"
    /\ op' = "images_index_to_video"
    /\ LET parsed == LoadAll(collection)
           sorted == Sorted(parsed.val)
       IN IF parsed.err # "none"
          THEN /\ result' = Raised(parsed.err, 117)
               /\ pc' = "done"
               /\ UNCHANGED <<loaded, new_array>>
          ELSE IF sorted.err # "none"
          THEN /\ loaded' = parsed.val
               /\ result' = Raised(sorted.err, 117)
               /\ pc' = "done"
               /\ UNCHANGED new_array
          ELSE /\ loaded' = parsed.val
               /\ new_array' = sorted.val
               /\ pc' = "a118"
               /\ UNCHANGED result
    /\ UNCHANGED <<collection, origin, image, item, video_writer, log>>
    /\ UNCHANGED videoVars

\* Mutant of FirstItem: an empty array yields a placeholder record instead of
\* raising.
FirstItemOrPlaceholder(arr) ==
    IF arr = <<>> THEN Value(JList(<<JInt(0), JStr(<<"a">>)>>)) ELSE Value(arr[1])

\* new_array[0]
FirstItem(arr) ==
    IF arr = <<>> THEN Raise("IndexError") ELSE Value(arr[1])

\* Line 118: image = context.images.get_pil(new_array[0][1])
AssembleFirstImage ==
    /\ pc = "a118"
    /\ LET first == FirstItem(new_array)
           name == GetItem(first.val, 1)
           got == get_pil(name.val)
       IN IF first.err # "none"
          THEN /\ result' = Raised(first.err, 118)
               /\ pc' = "done"
               /\ UNCHANGED <<image, log>>
          ELSE IF name.err # "none"
          THEN /\ result' = Raised(name.err, 118)
               /\ pc' = "done"
               /\ UNCHANGED <<image, log>>
          ELSE /\ log' = Append(log, Event("get_pil", name.val.s, 0, 0))
               /\ IF got.err # "none"
                  THEN /\ result' = Raised(got.err, 118)
                       /\ pc' = "done"
                       /\ UNCHANGED image
                  ELSE /\ image' = got.img
                       /\ pc' = "a121"
                       /\ UNCHANGED result
    /\ UNCHANGED <<op, collection, origin, loaded, new_array, item, video_writer>>
    /\ UNCHANGED videoVars

\* Mutant of WriterSize: width and height are swapped.
WriterSizeSwapped(img) == [w |-> img.height, h |-> img.width]

\* The size the writer is created with: (image.width, image.height).
WriterSize(img) == [w |-> img.width, h |-> img.height]

\* Mutant of OpenFailed: isOpened() is not checked, the loop is entered.
OpenFailureIgnored ==
    /\ item' = 1
    /\ pc' = "a125"
    /\ UNCHANGED result

\* What follows cv2.VideoWriter(...) when isOpened() is false.
OpenFailed ==
    /\ result' = Raised("RuntimeError", 123)
    /\ pc' = "done"
    /\ UNCHANGED item

\* Lines 120-123: create the writer; it opens or not, as codec, container and
\* path allow.
AssembleOpenWriter ==
    /\ pc = "a121"
    /\ \E opened \in BOOLEAN :
        IF opened
        THEN /\ video_writer' = "open"
             /\ log' = Append(log, Event("open", <<>>, WriterSize(image).w, WriterSize(image).h))
             /\ item' = 1
             /\ pc' = "a125"
             /\ UNCHANGED result
        ELSE /\ video_writer' = "closed"
             /\ log' = Append(log, Event("open_failed", <<>>, 0, 0))
             /\ OpenFailed
    /\ UNCHANGED <<op, collection, origin, loaded, new_array, image>>
    /\ UNCHANGED videoVars

\* Lines 125-128: one pass of the loop body.
AssembleFrame ==
    /\ pc = "a125"
    /\ item <= Len(new_array)
    /\ LET name == GetItem(new_array[item], 1)
           got == get_pil(name.val)
       IN IF name.err # "none"
          THEN /\ result' = Raised(name.err, 126)
               /\ pc' = "done"
               /\ UNCHANGED <<image, log, item>>
          ELSE IF got.err # "none"
          THEN /\ log' = Append(log, Event("get_pil", name.val.s, 0, 0))
               /\ result' = Raised(got.err, 126)
               /\ pc' = "done"
               /\ UNCHANGED <<image, item>>
          ELSE IF ~Convertible(got.img)
          THEN /\ log' = Append(log, Event("get_pil", name.val.s, 0, 0))
               /\ image' = got.img
               /\ result' = Raised("cv2.error", 127)
               /\ pc' = "done"
               /\ UNCHANGED item
          ELSE /\ log' = log \o <<Event("get_pil", name.val.s, 0, 0),
                                  Event("write", name.val.s, got.img.width, got.img.height)>>
               /\ image' = got.img
               /\ item' = item + 1
               /\ UNCHANGED <<pc, result>>
    /\ UNCHANGED <<op, collection, origin, loaded, new_array, video_writer>>
    /\ UNCHANGED videoVars

\* Line 130: video_writer.release()
AssembleRelease ==
    /\ pc = "a125"
    /\ item > Len(new_array)
    /\ video_writer' = "released"
    /\ log' = Append(log, Event("release", <<>>, 0, 0))
    /\ pc' = "a132"
    /\ UNCHANGED <<op, collection, origin, loaded, new_array, image, item, result>>
    /\ UNCHANGED videoVars

\* Line 132: return ImagesIndexToVideoOutput()
AssembleReturn ==
    /\ pc = "a132"
    /\ result' = Returned(0)
    /\ pc' = "done"
    /\ UNCHANGED <<op, collection, origin>>
    /\ UNCHANGED assembleVars
    /\ UNCHANGED videoVars

\* ------------------------------------------------------------------------
\* The video nodes.  They share no state with the collection, and are run
\* from the state in which no record has been gathered.
\* ------------------------------------------------------------------------

\* cv2.VideoCapture(path): the state of the new capture.
VideoCapture(path) == IF FileSystem[path].isVideo THEN "open" ELSE "closed"

\* video.get(prop): the container's value, 0 when the capture is not open.
CaptureGet(state, path, prop) ==
    IF state = "open"
    THEN (IF prop = "FRAME_COUNT" THEN FileSystem[path].frame_count ELSE FileSystem[path].fps)
    ELSE 0

StartVideoOp(name, path, at) ==
    /\ pc = "idle"
    /\ collection = <<>>
    /\ op' = name
    /\ video_path' = path
    /\ video' = VideoCapture(path)
    /\ pc' = at
    /\ UNCHANGED <<collection, origin, result, position, ret, frame, saved>>
    /\ UNCHANGED assembleVars

\* Line 38: video = cv2.VideoCapture(self.video_path)
ExtractOpen(path, n) ==
    /\ StartVideoOp("load_video_frame", path, "e39")
    /\ frame_number' = n

\* Lines 39-42: release and raise when the capture did not open.
ExtractCheckOpened ==
    /\ pc = "e39"
    /\ IF video # "open"
       THEN /\ video' = "released"
            /\ result' = Raised("ValueError", 42)
            /\ pc' = "done"
       ELSE /\ pc' = "e45"
            /\ UNCHANGED <<video, result>>
    /\ UNCHANGED <<op, collection, origin, video_path, frame_number, position, ret, frame, saved>>
    /\ UNCHANGED assembleVars

\* Mutant of SeekTarget: the one-based frame number is used as the position.
SeekFrameNumber(n) == n

\* The zero-based position Extract Frame seeks to.
SeekTarget(n) == n - 1

\* Line 45: video.set(cv2.CAP_PROP_POS_FRAMES, self.frame_number - 1)
ExtractSeek ==
    /\ pc = "e45"
    /\ position' = SeekTarget(frame_number)
    /\ pc' = "e48"
    /\ UNCHANGED <<op, collection, origin, video_path, frame_number, video, ret, frame, saved, result>>
    /\ UNCHANGED assembleVars

\* Line 48: ret, frame = video.read()
ExtractRead ==
    /\ pc = "e48"
    /\ LET frames == FileSystem[video_path].frames
       IN IF position < Len(frames)
          THEN /\ ret' = TRUE
               /\ frame' = frames[position + 1]
               /\ position' = position + 1
          ELSE /\ ret' = FALSE
               /\ UNCHANGED <<frame, position>>
    /\ pc' = "e51"
    /\ UNCHANGED <<op, collection, origin, video_path, frame_number, video, saved, result>>
    /\ UNCHANGED assembleVars

\* Line 51: video.release()
ExtractRelease ==
    /\ pc = "e51"
    /\ video' = "released"
    /\ pc' = "e53"
    /\ UNCHANGED <<op, collection, origin, video_path, frame_number, position, ret, frame, saved, result>>
    /\ UNCHANGED assembleVars

\* Lines 53-62: raise when nothing was read, else save the image and return.
ExtractReturn ==
    /\ pc = "e53"
    /\ IF ~ret
       THEN /\ result' = Raised("Exception", 54)
            /\ UNCHANGED saved
       ELSE /\ saved' = Append(saved, frame)
            /\ result' = Returned(frame)
    /\ pc' = "done"
    /\ UNCHANGED <<op, collection, origin, video_path, frame_number, video, position, ret, frame>>
    /\ UNCHANGED assembleVars

\* Line 150: video = cv2.VideoCapture(self.video_path)
CountOpen(path) ==
    /\ StartVideoOp("get_total_frames", path, "c153")
    /\ UNCHANGED frame_number

\* Lines 153-158: read the frame count, release, return it.
CountReturn ==
    /\ pc = "c153"
    /\ result' = Returned(CaptureGet(video, video_path, "FRAME_COUNT"))
    /\ video' = "released"
    /\ pc' = "done"
    /\ UNCHANGED <<op, collection, origin, video_path, frame_number, position, ret, frame, saved>>
    /\ UNCHANGED assembleVars

\* Line 176: video = cv2.VideoCapture(self.video_path)
FrameRateOpen(path) ==
    /\ StartVideoOp("get_source_framerate", path, "f179")
    /\ UNCHANGED frame_number

\* Lines 179-184: read the frame rate, release, return it.
FrameRateReturn ==
    /\ pc = "f179"
    /\ result' = Returned(CaptureGet(video, video_path, "FPS"))
    /\ video' = "released"
    /\ pc' = "done"
    /\ UNCHANGED <<op, collection, origin, video_path, frame_number, position, ret, frame, saved>>
    /\ UNCHANGED assembleVars

\* The host takes the outcome; the next graph starts from scratch.
NextGraph ==
    /\ pc = "done"
    /\ pc' = "idle"
    /\ op' = "none"
    /\ collection' = <<>>
    /\ origin' = <<>>
    /\ loaded' = <<>>
    /\ new_array' = <<>>
    /\ image' = NoImage
    /\ item' = 0
    /\ video_writer' = "none"
    /\ log' = <<>>
    /\ video_path' = "none"
    /\ frame_number' = 0
    /\ video' = "none"
    /\ position' = 0
    /\ ret' = FALSE
    /\ frame' = 0
    /\ saved' = <<>>
    /\ result' = NoResult

Next ==
    \/ \E index \in IndexValues, image_name \in ImageNames : ImageIndexCollect(index, image_name)
    \/ \E s \in ForeignRecords : ForeignRecord(s)
    \/ AssembleSort
    \/ AssembleFirstImage
    \/ AssembleOpenWriter
    \/ AssembleFrame
    \/ AssembleRelease
    \/ AssembleReturn
    \/ \E path \in Paths, n \in FrameNumbers : ExtractOpen(path, n)
    \/ ExtractCheckOpened
    \/ ExtractSeek
    \/ ExtractRead
    \/ ExtractRelease
    \/ ExtractReturn
    \/ \E path \in Paths : CountOpen(path)
    \/ CountReturn
    \/ \E path \in Paths : FrameRateOpen(path)
    \/ FrameRateReturn
    \/ NextGraph

Spec == Init /\ [][Next]_vars

\* ------------------------------------------------------------------------
\* Vocabulary of the properties
\* ------------------------------------------------------------------------

Assembling == op = "images_index_to_video"

AssembleDone == Assembling /\ pc = "done"

\* A parsed record as the wire format describes it: [integer, string].
WellFormed(x) ==
    /\ x.kind = "list"
    /\ Len(x.items) = 2
    /\ x.items[1].kind = "int"
    /\ x.items[2].kind = "str"

\* Every record of the collection parsed, and parsed to a well-formed record.
AllWellFormed ==
    /\ Len(loaded) = Len(collection)
    /\ \A k \in 1..Len(loaded) : WellFormed(loaded[k])

IndexOf(x) == x.items[1].n

NameOf(x) == x.items[2].s

DistinctIndices ==
    \A j, k \in 1..Len(loaded) : j # k => IndexOf(loaded[j]) # IndexOf(loaded[k])

\* The (index, name) pairs of the collection, without their arrival order.
RecordSet ==
    {[index |-> IndexOf(loaded[k]), name |-> NameOf(loaded[k])] : k \in 1..Len(loaded)}

\* The names of a set of pairs with distinct indices, lowest index first.
RECURSIVE AscendingRefs(_)
AscendingRefs(S) ==
    IF S = {} THEN <<>>
    ELSE LET m == CHOOSE r \in S : \A q \in S : r.index <= q.index
         IN <<m.name>> \o AscendingRefs(S \ {m})

IsPrefix(a, b) == Len(a) <= Len(b) /\ SubSeq(b, 1, Len(a)) = a

IsWrite(e) == e.ev = "write"

IsGet(e) == e.ev = "get_pil"

\* The image references whose frames were appended, in order.
WrittenNames ==
    LET w == SelectSeq(log, IsWrite) IN [k \in 1..Len(w) |-> w[k].name]

ParseErrors == {"JSONDecodeError", "IndexError", "TypeError", "KeyError"}

\* The names of the records of index i, in the order of the sequence.
NamesAt(arr, i) ==
    LET hit(x) == IndexOf(x) = i
        r == SelectSeq(arr, hit)
    IN [k \in 1..Len(r) |-> NameOf(r[k])]

SortedNames == [k \in 1..Len(new_array) |-> NameOf(new_array[k])]

\* ------------------------------------------------------------------------
\* Properties
\* ------------------------------------------------------------------------

\* C1: for well-formed records with pairwise distinct indices, the image
\* references whose frames are appended are the references in ascending
\* order of index, whatever the order the records arrived in: a prefix of
\* that list while the run goes on or when it fails, the whole list when it
\* returns.
C1_OrderDependsOnlyOnIndex ==
    (Assembling /\ AllWellFormed /\ DistinctIndices) =>
        /\ IsPrefix(WrittenNames, AscendingRefs(RecordSet))
        /\ (pc = "done" /\ result.err = "none") => WrittenNames = AscendingRefs(RecordSet)

\* C1 witness: three records that arrived in descending order of index were
\* assembled.
C1_Witness ==
    /\ AssembleDone
    /\ result.err = "none"
    /\ Len(collection) = 3
    /\ AllWellFormed
    /\ IndexOf(loaded[1]) > IndexOf(loaded[2])
    /\ IndexOf(loaded[2]) > IndexOf(loaded[3])
    /\ NameOf(loaded[1]) # NameOf(loaded[3])

\* C2: no invocation ends with a handle it opened still open.
C2_NoHandleLeft ==
    pc = "done" => (video_writer # "open" /\ video # "open")

\* C3: a collection with a record that is not a two-element [integer, string]
\* array fails with a parse error, and no writer is created and no frame
\* appended.
C3_MalformedRecordFails ==
    (AssembleDone /\ ~AllWellFormed) =>
        /\ result.err \in ParseErrors
        /\ video_writer = "none"
        /\ WrittenNames = <<>>

\* C4: on an empty collection the invocation raises before a writer is
\* created, before any image is asked of the store and before any frame is
\* appended.
C4_EmptyFailsFast ==
    (Assembling /\ collection = <<>>) =>
        /\ pc \in {"a118", "done"}
        /\ video_writer = "none"
        /\ log = <<>>
        /\ pc = "done" => (result.err = "IndexError" /\ result.line = 118)

\* C4 witness: the invocation ended on an empty collection.
C4_Witness == AssembleDone /\ collection = <<>> /\ result.err # "none"

\* C5: records of equal index keep their arrival order: in the sorted array
\* the names at each index are the names of the input at that index in input
\* order, and the appended frames follow the sorted array.
C5_StableOrder ==
    (Assembling /\ AllWellFormed /\ pc \notin {"idle", "a118"} /\ ~(pc = "done" /\ result.line = 117)) =>
        /\ Len(new_array) = Len(collection)
        /\ \A k \in 1..Len(loaded) :
              NamesAt(new_array, IndexOf(loaded[k])) = NamesAt(loaded, IndexOf(loaded[k]))
        /\ IsPrefix(WrittenNames, SortedNames)
        /\ (pc = "done" /\ result.err = "none") => WrittenNames = SortedNames

\* C5 witness: two interleaved groups of equal index, each with two different
\* names, were assembled.
C5_Witness ==
    /\ AssembleDone
    /\ result.err = "none"
    /\ Len(collection) = 4
    /\ AllWellFormed
    /\ IndexOf(loaded[1]) = IndexOf(loaded[3])
    /\ IndexOf(loaded[2]) = IndexOf(loaded[4])
    /\ IndexOf(loaded[1]) > IndexOf(loaded[2])
    /\ NameOf(loaded[1]) # NameOf(loaded[3])
    /\ NameOf(loaded[2]) # NameOf(loaded[4])

\* C6: the string Image Index Collect produced for (index, name) parses to
\* exactly the list [index, name], and a collection of such strings does not
\* end Images Index To Video with a parse error.
C6_RoundTrip ==
    /\ pc = "idle" =>
          \A k \in 1..Len(collection) :
              origin[k].encoded =>
                  /\ json_loads(collection[k]).ok
                  /\ json_loads(collection[k]).val
                        = JList(<<JInt(origin[k].index), JStr(origin[k].name)>>)
    /\ (AssembleDone /\ collection # <<>> /\ \A k \in 1..Len(origin) : origin[k].encoded)
          => result.err \notin ParseErrors

\* C6 witness: a collection of encoded records, one with a two-digit index
\* and one with a name that needs escaping, went through the parser.
C6_Witness ==
    /\ AssembleDone
    /\ Len(collection) >= 2
    /\ \A k \in 1..Len(origin) : origin[k].encoded
    /\ \E k \in 1..Len(origin) : origin[k].index >= 10
    /\ \E k \in 1..Len(origin) : \E c \in 1..Len(origin[k].name) : origin[k].name[c] = "\\"

\* C7: Load Video Frame ends in one of three ways: the open error when the
\* source does not open; the frame at zero-based position frame_number - 1,
\* saved as the only image, when frame_number is within the clip; the read
\* error when it is beyond.  Nothing is saved or returned on an error.
C7_ExtractOutcomes ==
    (pc = "done" /\ op = "load_video_frame") =>
        LET f == FileSystem[video_path]
        IN IF ~f.isVideo
           THEN result = Raised("ValueError", 42) /\ saved = <<>>
           ELSE IF frame_number <= Len(f.frames)
           THEN result = Returned(f.frames[(frame_number - 1) + 1])
                /\ saved = <<f.frames[(frame_number - 1) + 1]>>
           ELSE result = Raised("Exception", 54) /\ saved = <<>>

\* C7 witness: frame number 1 of the clip was returned.
C7_Witness ==
    /\ pc = "done"
    /\ op = "load_video_frame"
    /\ frame_number = 1
    /\ result.hasVal
    /\ saved # <<>>

\* C8: Get Total Frames and Get Source Frame Rate raise, and return no
\* value, when the source does not open.
C8_UnopenedSourceRaises ==
    (pc = "done" /\ op \in {"get_total_frames", "get_source_framerate"}
        /\ ~FileSystem[video_path].isVideo)
        => (result.err # "none" /\ ~result.hasVal)

\* C9: a run that returns on n well-formed records has made exactly these
\* calls: the image of the lowest-index record is fetched, the writer is
\* opened once with that image's width and height, each record of the sorted
\* array is fetched and its frame appended, n frames in all, and the writer is
\* released once, last.  A frame is only ever appended to an open writer.
C9_CallSequence ==
    /\ (log # <<>> /\ log[Len(log)].ev = "write") => video_writer = "open"
    /\ (AssembleDone /\ result.err = "none" /\ AllWellFormed) =>
          LET n == Len(collection)
          IN /\ n > 0
             /\ Len(new_array) = n
             /\ \A k \in 1..n : IndexOf(new_array[1]) <= IndexOf(loaded[k])
             /\ \A k \in 1..(n - 1) : IndexOf(new_array[k]) <= IndexOf(new_array[k + 1])
             /\ Len(log) = 2 * n + 3
             /\ log[1] = Event("get_pil", SortedNames[1], 0, 0)
             /\ log[2] = Event("open", <<>>, ImageStore[SortedNames[1]].width,
                               ImageStore[SortedNames[1]].height)
             /\ \A k \in 1..n :
                   /\ log[2 * k + 1] = Event("get_pil", SortedNames[k], 0, 0)
                   /\ log[2 * k + 2].ev = "write"
                   /\ log[2 * k + 2].name = SortedNames[k]
             /\ log[2 * n + 3] = Event("release", <<>>, 0, 0)
             /\ video_writer = "released"

\* C9 witness: three records were assembled whose lowest index arrived last
\* and whose first arrival has an image of another size.
C9_Witness ==
    /\ AssembleDone
    /\ result.err = "none"
    /\ AllWellFormed
    /\ Len(collection) = 3
    /\ IndexOf(loaded[3]) < IndexOf(loaded[1])
    /\ IndexOf(loaded[3]) < IndexOf(loaded[2])
    /\ ImageStore[NameOf(loaded[3])].width # ImageStore[NameOf(loaded[1])].width

\* C10: when the writer does not open, the invocation raises the open error
\* at once: nothing is fetched or appended after the failed open.
C10_OpenFailureStops ==
    /\ \A k \in 1..Len(log) : log[k].ev = "open_failed" =>
          /\ k = Len(log)
          /\ pc = "done"
          /\ result = Raised("RuntimeError", 123)
    /\ (AssembleDone /\ result.err = "RuntimeError") =>
          /\ WrittenNames = <<>>
          /\ Len(SelectSeq(log, IsGet)) = 1
          /\ log[1].ev = "get_pil"
          /\ video_writer # "open"

\* C10 witness: the writer failed to open on a collection of several records.
C10_Witness ==
    /\ AssembleDone
    /\ result.err = "RuntimeError"
    /\ Len(collection) >= 2

====
